---- MODULE Spec2Model ----
(***************************************************************************)
(* Model of the Geoclue master process (src/src/master.c): the provider    *)
(* list, the list of active clients, client creation over D-Bus, the       *)
(* NameOwnerChanged filter that destroys the client of a vanished peer,    *)
(* the weak-reference callback that releases the providers with the last   *)
(* client, and provider selection.                                         *)
(***************************************************************************)
EXTENDS Integers, Sequences, FiniteSets, TLC

VARIABLES
    pc,               \* "new" before gc_master_init, then "running", "failed"
                      \* (no connection) or "crashed"
    master_connection,\* static DBusGConnection *master_connection (non-NULL?)
    filter_installed, \* name_owner_changed_filter added to the connection
    providers,        \* static GList *providers
    clients,          \* static GList *clients
    serial,           \* static guint32 serial of gc_iface_master_create; MaxSerial
                      \* keeps it below the 2^32 at which it would wrap
    registered,       \* objects registered on the connection: path -> client
    provider_refs,    \* reference count of every GcMasterProvider allocated
    client_refs,      \* reference count of every GcMasterClient allocated
    unregistered,     \* calls of dbus_g_connection_unregister_g_object, per client
    returned,         \* the paths dbus_g_method_return has sent, in order
    last              \* the operation handled last, with its inputs and results

vars == <<pc, master_connection, filter_installed, providers, clients,
          serial, registered, provider_refs, client_refs, unregistered,
          returned, last>>

----------------------------------------------------------------------------
(* Bounds of the model *)

\* the most files the providers directory holds
MaxFiles == 3
\* the most Create calls of one process lifetime
MaxSerial == 3
\* the most providers of the registry in the selection specification
MaxProviders == 2

----------------------------------------------------------------------------
(* Values *)

\* the NULL pointer: to an object, to a string held as a TLA+ string, and to
\* a string held as a sequence of characters
NULL == [null |-> TRUE]
NULL_STRING == "(null)"
NULL_CHARS == <<"(null)">>

\* unique bus names of peers that call Create, and one that never does
Senders == {":1.42", ":1.43"}
BusNames == Senders \cup {":1.99"}
\* the old_owner / new_owner arguments of NameOwnerChanged
Owners == {"", ":1.42"}

GEOCLUE_MASTER_PATH == "/org/freedesktop/Geoclue/Master/client"
PROVIDER_EXTENSION == <<".", "provider">>

\* GcInterfaceFlags and GeoclueResourceFlags are bit sets, GeoclueAccuracyLevel
\* is an ordered enumeration
InterfaceFlags == SUBSET {"position"}
AccuracyLevels == {0, 1}
ResourceFlags  == SUBSET {"network"}

Descriptors ==
    [interfaces : InterfaceFlags, accuracy : AccuracyLevels,
     update : BOOLEAN, resources : ResourceFlags]

Requests ==
    [iface_type : InterfaceFlags, min_accuracy : AccuracyLevels,
     can_update : BOOLEAN, allowed : ResourceFlags]

\* file names, as the sequences of characters strrchr and strcmp see: a
\* "." is one character, every other word stands for characters without "."
FileNames ==
    { <<"gps", ".", "provider">>,
      <<"net", ".", "provider">>,
      <<"cell", ".", "provider">>,
      <<"README">>,
      <<"gps", ".", "provider", ".", "bak">> }

\* the content of a file gc_master_provider_new cannot load
Malformed == [malformed |-> TRUE]

\* the descriptor a file of the providers directory holds in the life-cycle
\* specification, when it is well-formed
FileDescriptor(name) ==
    CASE name[1] = "gps" ->
           [interfaces |-> {"position"}, accuracy |-> 1, update |-> TRUE,
            resources |-> {}]
      [] name[1] = "net" ->
           [interfaces |-> {"position"}, accuracy |-> 0, update |-> FALSE,
            resources |-> {"network"}]
      [] OTHER ->
           [interfaces |-> {}, accuracy |-> 0, update |-> TRUE,
            resources |-> {"network"}]
DirEntries ==
    UNION {{[name |-> n, content |-> c] : c \in {FileDescriptor(n), Malformed}} :
              n \in FileNames}

\* the requests clients make in the life-cycle specification
ClientRequests ==
    { [iface_type |-> {"position"}, min_accuracy |-> 0, can_update |-> FALSE,
       allowed |-> {"network"}],
      [iface_type |-> {"position"}, min_accuracy |-> 1, can_update |-> TRUE,
       allowed |-> {}],
      [iface_type |-> {}, min_accuracy |-> 1, can_update |-> FALSE,
       allowed |-> {"network"}] }

----------------------------------------------------------------------------
(* Sequences as GLists *)

Range(s) == {s[i] : i \in 1..Len(s)}

g_list_prepend(list, data) == <<data>> \o list

\* g_list_remove unlinking the head of the list whatever its data
g_list_remove_head(list, data) ==
    IF list = <<>> THEN <<>> ELSE Tail(list)

\* g_list_remove: removes the first element whose data is `data`
RECURSIVE g_list_remove(_, _)
g_list_remove(list, data) ==
    IF list = <<>> THEN <<>>
    ELSE IF Head(list) = data THEN Tail(list)
    ELSE <<Head(list)>> \o g_list_remove(Tail(list), data)

\* all sequences over S of length at most n with pairwise distinct `name`s
RECURSIVE Listings(_, _)
Listings(S, n) ==
    IF n = 0 THEN {<<>>}
    ELSE LET shorter == Listings(S, n - 1)
         IN  shorter \cup
             {Append(l, e) : l \in {x \in shorter : Len(x) = n - 1}, e \in S}

DistinctNames(l) ==
    \A i, j \in 1..Len(l) : i # j => l[i].name # l[j].name

\* GEOCLUE_PROVIDERS_DIR as the file system holds it: it cannot be opened,
\* or it lists its files in the order g_dir_read_name returns them
Directories ==
    {[open |-> FALSE, files |-> <<>>]} \cup
    {[open |-> TRUE, files |-> l] :
        l \in {x \in Listings(DirEntries, MaxFiles) : DistinctNames(x)}}

----------------------------------------------------------------------------
(* Loading the providers: gc_master_load_providers *)

\* strrchr (filename, '.'): the suffix from the last "." on, NULL without one
strrchr(filename) ==
    LET dots == {i \in 1..Len(filename) : filename[i] = "."}
    IN  IF dots = {} THEN NULL_CHARS
        ELSE SubSeq(filename, CHOOSE i \in dots : \A j \in dots : j <= i,
                    Len(filename))

\* ext == NULL || strcmp (ext, PROVIDER_EXTENSION) != 0
Ignored(filename) ==
    LET ext == strrchr(filename)
    IN  ext = NULL_CHARS \/ ext # PROVIDER_EXTENSION

\* gc_master_provider_new: the provider of a descriptor file, NULL when the
\* file cannot be loaded
gc_master_provider_new(file) ==
    IF file.content = Malformed THEN NULL
    ELSE [file |-> file.name, desc |-> file.content]

gc_master_add_new_provider(list, file) ==
    LET provider == gc_master_provider_new(file)
    IN  IF provider = NULL THEN list
        ELSE g_list_prepend(list, provider)

\* the loop leaving at the first descriptor that cannot be loaded
RECURSIVE load_files_until_failure(_, _)
load_files_until_failure(list, files) ==
    IF files = <<>> THEN list
    ELSE IF Ignored(Head(files).name)
         THEN load_files_until_failure(list, Tail(files))
    ELSE IF gc_master_provider_new(Head(files)) = NULL THEN list
    ELSE load_files_until_failure(
             gc_master_add_new_provider(list, Head(files)), Tail(files))

\* the while loop of gc_master_load_providers over the files read
RECURSIVE load_files(_, _)
load_files(list, files) ==
    IF files = <<>> THEN list
    ELSE IF Ignored(Head(files).name) THEN load_files(list, Tail(files))
    ELSE load_files(gc_master_add_new_provider(list, Head(files)), Tail(files))

gc_master_load_providers(list, d) ==
    IF ~d.open THEN list
    ELSE load_files(list, d.files)

----------------------------------------------------------------------------
(* Provider selection: gc_master_get_providers *)

\* gc_master_provider_is_good (master-provider.c): the provider implements
\* the requested interfaces, is accurate enough, updates if that is required
\* and uses allowed resources only
gc_master_provider_is_good(provider, request) ==
    /\ request.iface_type \subseteq provider.desc.interfaces
    /\ provider.desc.accuracy >= request.min_accuracy
    /\ (request.can_update => provider.desc.update)
    /\ provider.desc.resources \subseteq request.allowed

\* the loop leaving at the first good provider
RECURSIVE get_providers_loop_first_only(_, _, _)
get_providers_loop_first_only(l, p, request) ==
    IF l = <<>> THEN p
    ELSE IF gc_master_provider_is_good(Head(l), request)
         THEN g_list_prepend(p, Head(l))
         ELSE get_providers_loop_first_only(Tail(l), p, request)

\* the for loop with the good providers linked in at the end of the result
RECURSIVE get_providers_loop_appends(_, _, _)
get_providers_loop_appends(l, p, request) ==
    IF l = <<>> THEN p
    ELSE get_providers_loop_appends(
             Tail(l),
             IF gc_master_provider_is_good(Head(l), request)
             THEN Append(p, Head(l))
             ELSE p,
             request)

\* the for loop of gc_master_get_providers: l is the rest of the provider
\* list, p the result so far
RECURSIVE get_providers_loop(_, _, _)
get_providers_loop(l, p, request) ==
    IF l = <<>> THEN p
    ELSE get_providers_loop(
             Tail(l),
             IF gc_master_provider_is_good(Head(l), request)
             THEN g_list_prepend(p, Head(l))
             ELSE p,
             request)

gc_master_get_providers(list, request) ==
    IF list = <<>> THEN <<>>
    ELSE get_providers_loop(list, <<>>, request)

----------------------------------------------------------------------------
(* Clients *)

\* "%d" of g_strdup_printf: the decimal digits of n
RECURSIVE FormatD(_)
FormatD(n) ==
    IF n < 10 THEN <<n>>
    ELSE FormatD(n \div 10) \o <<n % 10>>

\* g_strdup_printf with the format "%s": the serial is left out of the path
g_strdup_printf_without_serial(prefix, n) == <<prefix>>

\* g_strdup_printf ("%s%d", GEOCLUE_MASTER_PATH, serial)
g_strdup_printf(prefix, n) == <<prefix>> \o FormatD(n)

\* add_client keeping one client per sender
add_client_one_per_sender(list, client) ==
    IF \E i \in 1..Len(list) : list[i].sender = client.sender
    THEN list
    ELSE g_list_prepend(list, client)

\* add_client linking the client into the list twice
add_client_twice(list, client) ==
    g_list_prepend(g_list_prepend(list, client), client)

add_client(list, client) == g_list_prepend(list, client)

\* find_client_by_sender returning the client examined last where it should
\* return NULL
RECURSIVE find_client_or_last(_, _)
find_client_or_last(list, sender) ==
    IF list = <<>> THEN NULL
    ELSE IF Head(list).sender = sender \/ Tail(list) = <<>>
         THEN Head(list)
         ELSE find_client_or_last(Tail(list), sender)

\* find_client_by_sender without the comparison of the sender
find_client_any_sender(list, sender) ==
    IF list = <<>> THEN NULL ELSE Head(list)

\* find_client_by_sender with the result of the strcmp read the wrong way
\* round: the first client of another sender is returned
RECURSIVE find_client_not_sender(_, _)
find_client_not_sender(list, sender) ==
    IF list = <<>> THEN NULL
    ELSE IF Head(list).sender # NULL_STRING /\ Head(list).sender # sender
         THEN Head(list)
         ELSE find_client_not_sender(Tail(list), sender)

\* find_client_by_sender going on to the last match of the list
RECURSIVE find_client_last_match(_, _)
find_client_last_match(list, sender) ==
    IF list = <<>> THEN NULL
    ELSE LET later == find_client_last_match(Tail(list), sender)
         IN  IF later # NULL THEN later
             ELSE IF Head(list).sender # NULL_STRING
                     /\ Head(list).sender = sender
                  THEN Head(list)
                  ELSE NULL

RECURSIVE find_client_by_sender(_, _)
find_client_by_sender(list, sender) ==
    IF list = <<>> THEN NULL
    ELSE IF Head(list).sender # NULL_STRING /\ Head(list).sender = sender
         THEN Head(list)
         ELSE find_client_by_sender(Tail(list), sender)

\* how often `data` occurs in `list`
RECURSIVE Count(_, _)
Count(list, data) ==
    IF list = <<>> THEN 0
    ELSE (IF Head(list) = data THEN 1 ELSE 0) + Count(Tail(list), data)

\* client_destroyed without the g_list_remove
client_destroyed_keeps_client(old_client) ==
    UNCHANGED <<clients, providers, provider_refs>>

\* client_destroyed without the providers = NULL after the release
client_destroyed_keeps_list(old_client) ==
    LET remaining == g_list_remove(clients, old_client)
    IN  /\ clients' = remaining
        /\ IF remaining = <<>> /\ providers # <<>>
           THEN /\ provider_refs' =
                       [p \in DOMAIN provider_refs |->
                           provider_refs[p] - Count(providers, p)]
                /\ UNCHANGED providers
           ELSE UNCHANGED <<providers, provider_refs>>

\* client_destroyed without the release of the providers
client_destroyed_without_release(old_client) ==
    /\ clients' = g_list_remove(clients, old_client)
    /\ UNCHANGED <<providers, provider_refs>>

\* client_destroyed with the emptiness test made before the g_list_remove
client_destroyed_checks_before_remove(old_client) ==
    /\ clients' = g_list_remove(clients, old_client)
    /\ IF clients = <<>> /\ providers # <<>>
       THEN /\ provider_refs' =
                   [p \in DOMAIN provider_refs |->
                       provider_refs[p] - Count(providers, p)]
            /\ providers' = <<>>
       ELSE UNCHANGED <<providers, provider_refs>>

\* client_destroyed without the clients == NULL half of the test
client_destroyed_releases_always(old_client) ==
    /\ clients' = g_list_remove(clients, old_client)
    /\ IF providers # <<>>
       THEN /\ provider_refs' =
                   [p \in DOMAIN provider_refs |->
                       provider_refs[p] - Count(providers, p)]
            /\ providers' = <<>>
       ELSE UNCHANGED <<providers, provider_refs>>

\* the weak reference callback: old_client is being finalized
client_destroyed(old_client) ==
    LET remaining == g_list_remove(clients, old_client)
    IN  /\ clients' = remaining
        /\ IF remaining = <<>> /\ providers # <<>>
           THEN /\ provider_refs' =
                       [p \in DOMAIN provider_refs |->
                           provider_refs[p] - Count(providers, p)]
                /\ providers' = <<>>
           ELSE UNCHANGED <<providers, provider_refs>>

\* g_object_unref (client): the last reference finalizes the client, which
\* runs its weak reference callbacks
g_object_unref(client) ==
    /\ client_refs' = [client_refs EXCEPT ![client] = @ - 1]
    /\ IF client_refs[client] = 1
       THEN client_destroyed(client)
       ELSE UNCHANGED <<clients, providers, provider_refs>>

\* the process serves D-Bus calls and signals: start-up obtained the
\* connection (without one the broker does not start) and has not faulted
InService == pc = "running"

\* the D-Bus messages the filter sees
Messages ==
    {[member |-> "NameOwnerChanged", args |-> <<n, o, w>>] :
        n \in BusNames, o \in Owners, w \in Owners}
    \cup {[member |-> "NameOwnerChanged", args |-> <<>>],
          [member |-> "NameAcquired", args |-> <<":1.42">>]}

dbus_message_is_signal(message, member) == message.member = member

\* dbus_message_get_args for three strings
dbus_message_get_args(message) == Len(message.args) = 3

\* the test of the new owner alone
Disconnected_new_owner_only(old_owner, new_owner) ==
    new_owner = NULL_STRING \/ new_owner = ""

\* old_owner && *old_owner && (!new_owner || !*new_owner)
Disconnected(old_owner, new_owner) ==
    /\ old_owner # NULL_STRING /\ old_owner # ""
    /\ (new_owner = NULL_STRING \/ new_owner = "")

name_owner_changed_filter(message) ==
    /\ InService
    /\ filter_installed
    /\ UNCHANGED <<pc, master_connection, filter_installed, serial, returned>>
    /\ IF \/ ~dbus_message_is_signal(message, "NameOwnerChanged")
          \/ ~dbus_message_get_args(message)
          \/ ~Disconnected(message.args[2], message.args[3])
       THEN /\ last' = [op |-> "filter", message |-> message, client |-> NULL,
                        released |-> {}]
            /\ UNCHANGED <<providers, clients, registered, provider_refs,
                           client_refs, unregistered>>
       ELSE LET name == message.args[1]
                client == find_client_by_sender(clients, name)
            IN  /\ IF client # NULL
                   THEN /\ IF client.object_path # NULL_CHARS /\ master_connection
                           THEN /\ registered' =
                                       {r \in registered : r.object # client}
                                /\ unregistered' =
                                       [unregistered EXCEPT ![client] = @ + 1]
                           ELSE UNCHANGED <<registered, unregistered>>
                        /\ g_object_unref(client)
                   ELSE UNCHANGED <<providers, clients, registered,
                                    provider_refs, client_refs, unregistered>>
                \* the providers this call has unreferenced
                /\ last' = [op |-> "filter", message |-> message,
                            client |-> client,
                            released |-> {p \in DOMAIN provider_refs :
                                provider_refs'[p] # provider_refs[p]}]

\* gc_iface_master_create loading the providers directory again when the
\* registry is empty
gc_iface_master_create_loads(sender) ==
    /\ InService
    /\ serial < MaxSerial
    /\ LET path == g_strdup_printf(GEOCLUE_MASTER_PATH, serial)
           client == [id |-> serial, sender |-> sender, object_path |-> path]
       IN  /\ serial' = serial + 1
           /\ client_refs' = client_refs @@ (client :> 1)
           /\ unregistered' = unregistered @@ (client :> 0)
           /\ registered' =
                  registered \cup {[path |-> path, object |-> client]}
           /\ clients' = add_client(clients, client)
           /\ returned' = Append(returned, path)
           /\ last' = [op |-> "create", sender |-> sender, path |-> path]
    /\ IF providers = <<>>
       THEN \E d \in Directories :
               LET loaded == gc_master_load_providers(providers, d)
               IN  /\ providers' = loaded
                   /\ provider_refs' =
                          [p \in Range(loaded) |-> 1] @@ provider_refs
       ELSE UNCHANGED <<providers, provider_refs>>
    /\ UNCHANGED <<pc, master_connection, filter_installed>>

gc_iface_master_create(sender) ==
    /\ InService
    /\ serial < MaxSerial
    /\ LET path == g_strdup_printf(GEOCLUE_MASTER_PATH, serial)
           client == [id |-> serial, sender |-> sender, object_path |-> path]
       IN  /\ serial' = serial + 1
           /\ client_refs' = client_refs @@ (client :> 1)
           /\ unregistered' = unregistered @@ (client :> 0)
           /\ registered' =
                  registered \cup {[path |-> path, object |-> client]}
           /\ clients' = add_client(clients, client)
           /\ returned' = Append(returned, path)
           /\ last' = [op |-> "create", sender |-> sender, path |-> path]
    /\ UNCHANGED <<pc, master_connection, filter_installed, providers,
                   provider_refs>>

----------------------------------------------------------------------------
(* Start-up and the next-state relation *)

\* g_print ("No providers found in %s\n", dir) of gc_master_load_providers
\* hands a GDir * to "%s" when the directory is empty: the bytes of the
\* structure are printed as a string, or the process faults reading them
PrintsDirectory(dir) == dir.open /\ dir.files = <<>>

\* gc_master_init without the return when there is no connection: the filter
\* is added and the providers are loaded all the same
gc_master_init_without_return(connected, dir, fault) ==
    /\ pc = "new"
    /\ pc' = IF ~connected THEN "failed"
             ELSE IF PrintsDirectory(dir) /\ fault THEN "crashed"
             ELSE "running"
    /\ master_connection' = connected
    /\ filter_installed' = TRUE
    /\ providers' = gc_master_load_providers(providers, dir)
    /\ provider_refs' =
           [p \in Range(gc_master_load_providers(providers, dir)) |-> 1]
    /\ last' = [op |-> "init", connected |-> connected, dir |-> dir]
    /\ UNCHANGED <<clients, serial, registered, client_refs, unregistered,
                   returned>>

\* connected: dbus_g_bus_get returned a connection; dir: the providers
\* directory; fault: printing the GDir * as a string faults
gc_master_init(connected, dir, fault) ==
    /\ pc = "new"
    /\ IF ~connected
       THEN /\ pc' = "failed"
            /\ UNCHANGED <<master_connection, filter_installed, providers,
                           provider_refs>>
       ELSE /\ pc' = IF PrintsDirectory(dir) /\ fault
                     THEN "crashed" ELSE "running"
            /\ master_connection' = TRUE
            /\ filter_installed' = TRUE
            /\ providers' = gc_master_load_providers(providers, dir)
            /\ provider_refs' =
                   [p \in Range(gc_master_load_providers(providers, dir)) |-> 1]
    /\ last' = [op |-> "init", connected |-> connected, dir |-> dir]
    /\ UNCHANGED <<clients, serial, registered, client_refs, unregistered,
                   returned>>

\* a client asks for the providers that meet its requirements
get_providers(request) ==
    /\ InService
    /\ last' = [op |-> "select", request |-> request,
                result |-> gc_master_get_providers(providers, request)]
    /\ UNCHANGED <<pc, master_connection, filter_installed, providers,
                   clients, serial, registered, provider_refs, client_refs,
                   unregistered, returned>>

Init ==
    /\ pc = "new"
    /\ master_connection = FALSE
    /\ filter_installed = FALSE
    /\ providers = <<>>
    /\ clients = <<>>
    /\ serial = 0
    /\ registered = {}
    /\ provider_refs = <<>>
    /\ client_refs = <<>>
    /\ unregistered = <<>>
    /\ returned = <<>>
    /\ last = [op |-> "none"]

Next ==
    \/ \E connected \in BOOLEAN, dir \in Directories, fault \in BOOLEAN :
          gc_master_init(connected, dir, fault)
    \/ \E sender \in Senders : gc_iface_master_create(sender)
    \/ \E message \in Messages : name_owner_changed_filter(message)
    \/ \E request \in ClientRequests : get_providers(request)

Spec == Init /\ [][Next]_vars

----------------------------------------------------------------------------
(* Selection alone: every registry gc_master_init can have loaded, then     *)
(* gc_master_get_providers for every request                               *)

\* the name of the i-th descriptor file: i characters and the extension
ProviderFile(i) == [j \in 1..i |-> "p"] \o PROVIDER_EXTENSION

\* the directories of n loadable descriptor files
RECURSIVE DescriptorFiles(_)
DescriptorFiles(n) ==
    IF n = 0 THEN {<<>>}
    ELSE {Append(l, [name |-> ProviderFile(n), content |-> d]) :
             l \in DescriptorFiles(n - 1), d \in Descriptors}

InitSelect ==
    /\ pc = "running"
    /\ \E n \in 0..MaxProviders : \E files \in DescriptorFiles(n) :
          LET dir == [open |-> TRUE, files |-> files]
          IN  /\ providers = gc_master_load_providers(<<>>, dir)
              /\ provider_refs = [p \in Range(providers) |-> 1]
              /\ last = [op |-> "init", connected |-> TRUE, dir |-> dir]
    /\ master_connection = TRUE
    /\ filter_installed = TRUE
    /\ clients = <<>>
    /\ serial = 0
    /\ registered = {}
    /\ client_refs = <<>>
    /\ unregistered = <<>>
    /\ returned = <<>>

NextSelect == \E request \in Requests : get_providers(request)

SpecSelect == InitSelect /\ [][NextSelect]_vars

----------------------------------------------------------------------------
(* The claims *)

\* a NameOwnerChanged signal {name, old, new}
IsNameOwnerChanged(m) == m.member = "NameOwnerChanged" /\ Len(m.args) = 3
NameOf(m) == m.args[1]
\* old non-empty, new empty: the peer has vanished
IsDisappearance(m) ==
    IsNameOwnerChanged(m) /\ m.args[2] # "" /\ m.args[3] = ""
\* old empty (a peer appears) or new non-empty (ownership moves)
IsIrrelevant(m) ==
    IsNameOwnerChanged(m) /\ (m.args[2] = "" \/ m.args[3] # "")

\* the tracked sessions of identity x
TrackedFor(x) == {c \in Range(clients) : c.sender = x}
\* the tracked session of identity x created last
MostRecentFor(x) ==
    {c \in TrackedFor(x) : \A d \in TrackedFor(x) : d.id <= c.id}
\* the sessions ever created, and those destroyed since
Created == DOMAIN client_refs
Destroyed == {c \in Created : client_refs[c] = 0}

\* C1: after every operation (start-up load, Create, session destruction) the
\* provider registry is non-empty if and only if the tracked session set is
\* non-empty.
C1_IdleTeardown ==
    pc = "running" => ((providers # <<>>) <=> (clients # <<>>))

\* C2, as claimed: when a disappearance notification for X is handled, every
\* session tracked for X is afterwards neither tracked nor exported, and if
\* it was the only tracked session the registry is empty.
C2_DisconnectCleanup ==
    [][(last'.op = "filter" /\ IsDisappearance(last'.message)) =>
          \A c \in TrackedFor(NameOf(last'.message)) :
              /\ c \notin Range(clients')
              /\ c \notin {r.object : r \in registered'}
              /\ (clients = <<c>> => providers' = <<>>)]_vars

\* C2, amended: when a disappearance notification for X is handled, the most
\* recently created session tracked for X is afterwards neither tracked nor
\* exported, and if it was the only tracked session the registry is empty.
C2_DisconnectCleanupMostRecent ==
    [][(last'.op = "filter" /\ IsDisappearance(last'.message)) =>
          \A c \in MostRecentFor(NameOf(last'.message)) :
              /\ c \notin Range(clients')
              /\ c \notin {r.object : r \in registered'}
              /\ (clients = <<c>> => providers' = <<>>)]_vars

\* a disappearance notification has destroyed the only tracked session and
\* the providers have been released with it
C2_Witness ==
    /\ last.op = "filter"
    /\ IsDisappearance(last.message)
    /\ last.client # NULL
    /\ last.client.sender = NameOf(last.message)
    /\ last.client \in Destroyed
    /\ clients = <<>>
    /\ registered = {}
    /\ last.released # {}
    /\ providers = <<>>

\* the session set, the exported set, the registry, the handle counter and
\* the reference counts are as they were
NothingDestroyed ==
    UNCHANGED <<clients, registered, providers, serial, provider_refs,
                client_refs, unregistered>>

\* C3, as claimed: a disappearance notification delivered again right after
\* its first delivery destroyed a session of X changes nothing.
C3_DuplicateNoOp ==
    [][(/\ last.op = "filter"
        /\ IsDisappearance(last.message)
        /\ last.client # NULL
        /\ last'.op = "filter"
        /\ last'.message = last.message) => NothingDestroyed]_vars

\* C3, amended: a disappearance notification delivered again right after its
\* first delivery destroyed the only tracked session of X changes nothing.
C3_DuplicateNoOpOnlySession ==
    [][(/\ last.op = "filter"
        /\ IsDisappearance(last.message)
        /\ last.client # NULL
        /\ TrackedFor(NameOf(last.message)) = {}
        /\ last'.op = "filter"
        /\ last'.message = last.message) => NothingDestroyed]_vars

\* the notification that destroyed the session of X has been delivered again
\* and found no session, while another peer's session is tracked
C3_Witness ==
    /\ last.op = "filter"
    /\ IsDisappearance(last.message)
    /\ last.client = NULL
    /\ \E c \in Destroyed : c.sender = NameOf(last.message)
    /\ TrackedFor(NameOf(last.message)) = {}
    /\ clients # <<>>
    /\ providers # <<>>

\* C4: a notification whose old owner is empty or whose new owner is
\* non-empty destroys and unexports no session, whatever name it carries.
C4_IrrelevantIgnored ==
    [][(last'.op = "filter" /\ IsIrrelevant(last'.message)) =>
          NothingDestroyed]_vars

\* such a notification has been handled for the identity of a tracked session
C4_Witness ==
    /\ last.op = "filter"
    /\ IsIrrelevant(last.message)
    /\ last.message.args[2] = ""
    /\ last.message.args[3] = ""
    /\ TrackedFor(NameOf(last.message)) # {}
    /\ providers # <<>>

\* C5: the handles Create has returned are pairwise distinct, those of
\* destroyed sessions included.
C5_HandleUniqueness ==
    \A i, j \in 1..Len(returned) : i # j => returned[i] # returned[j]

\* a handle has been returned after the session of an earlier handle was
\* destroyed
C5_Witness ==
    /\ last.op = "create"
    /\ Len(returned) >= 3
    /\ Destroyed # {}

\* the provider qualifies for the request: its interface flags are a superset
\* of the requested ones, its accuracy is at least the minimum, it updates if
\* that is required and its resource flags are a subset of the allowed ones
Qualifies(provider, request) ==
    /\ \A f \in request.iface_type : f \in provider.desc.interfaces
    /\ ~(provider.desc.accuracy < request.min_accuracy)
    /\ (~request.can_update \/ provider.desc.update)
    /\ \A f \in provider.desc.resources : f \in request.allowed

\* C6: gc_master_get_providers returns all and only the providers of the
\* registry that qualify for the request, each once, and the empty list when
\* the registry is empty or nothing qualifies.
C6_SelectionCorrectness ==
    last.op = "select" =>
        LET qualifying == {p \in Range(providers) : Qualifies(p, last.request)}
        IN  /\ Range(last.result) = qualifying
            /\ Len(last.result) = Cardinality(qualifying)
            /\ (qualifying = {} => last.result = <<>>)

\* a selection has returned the provider loaded first and left out the one
\* loaded last
C6_Witness ==
    /\ last.op = "select"
    /\ Len(providers) >= 2
    /\ Len(last.result) = 1
    /\ Qualifies(providers[Len(providers)], last.request)
    /\ ~Qualifies(providers[1], last.request)

\* C7: a destruction that empties the tracked set leaves the registry empty
\* with every provider released once; when the registry is empty already
\* it releases nothing.
C7_IdempotentRelease ==
    [][(clients # <<>> /\ clients' = <<>>) =>
          /\ providers' = <<>>
          /\ \A p \in DOMAIN provider_refs' : provider_refs'[p] = 0
          /\ (providers = <<>> => provider_refs' = provider_refs)]_vars

\* the tracked set has become empty a second time: the providers released
\* the first time are not released again
C7_Witness ==
    /\ last.op = "filter"
    /\ last.client # NULL
    /\ clients = <<>>
    /\ last.released = {}
    /\ providers = <<>>
    /\ \E p \in DOMAIN provider_refs : provider_refs[p] = 0

\* C8: a disappearance notification whose name is the identity of no tracked
\* session changes nothing.
C8_UnknownPeerIgnored ==
    [][(/\ last'.op = "filter"
        /\ IsDisappearance(last'.message)
        /\ TrackedFor(NameOf(last'.message)) = {}) => NothingDestroyed]_vars

\* such a notification has been handled while sessions of other peers were
\* tracked
C8_Witness ==
    /\ last.op = "filter"
    /\ IsDisappearance(last.message)
    /\ \A c \in Created : c.sender # NameOf(last.message)
    /\ last.client = NULL
    /\ Len(clients) >= 2
    /\ providers # <<>>

\* C9: Create adds one new session to the tracked set, with the caller's
\* identity and the returned handle, exports it under that handle, and
\* leaves the registry as it was.
C9_CreatePostcondition ==
    [][last'.op = "create" =>
          /\ last'.path # NULL_CHARS
          /\ returned' = Append(returned, last'.path)
          /\ \E c \in Range(clients') :
                /\ c \notin Range(clients)
                /\ c \notin Created
                /\ c.sender = last'.sender
                /\ c.object_path = last'.path
                /\ Range(clients') = Range(clients) \cup {c}
                /\ Len(clients') = Len(clients) + 1
                /\ registered' =
                       registered \cup {[path |-> last'.path, object |-> c]}
          /\ UNCHANGED <<providers, provider_refs>>]_vars

\* a peer that has a session already has created another one
C9_Witness ==
    /\ last.op = "create"
    /\ Cardinality(TrackedFor(last.sender)) >= 2
    /\ \E r \in registered :
          r.path = last.path /\ r.object = clients[1]
    /\ providers # <<>>

\* the file name ends in the provider extension
HasProviderExtension(name) ==
    /\ Len(name) >= Len(PROVIDER_EXTENSION)
    /\ SubSeq(name, Len(name) - Len(PROVIDER_EXTENSION) + 1, Len(name))
           = PROVIDER_EXTENSION

\* the files of the directory that carry the provider extension and can be
\* loaded
Loadable(d) ==
    {f \in Range(d.files) :
        HasProviderExtension(f.name) /\ f.content # Malformed}

\* C10: after the start-up load the registry holds exactly the providers of
\* the descriptors with the provider extension that could be loaded,
\* wherever in the directory the others are.
C10_PartialLoadFailure ==
    (last.op = "init" /\ last.connected) =>
        /\ Range(providers) =
               {[file |-> f.name, desc |-> f.content] : f \in Loadable(last.dir)}
        /\ Len(providers) = Cardinality(Loadable(last.dir))

\* a descriptor between two loadable ones could not be loaded
C10_Witness ==
    /\ last.op = "init"
    /\ last.connected
    /\ Len(last.dir.files) = 3
    /\ HasProviderExtension(last.dir.files[2].name)
    /\ last.dir.files[2].content = Malformed
    /\ Len(providers) = 2

\* C11: when the connection cannot be obtained at start-up the broker does
\* not enter service: the filter is not installed, no provider is loaded,
\* and no session is ever created or exported.
C11_StartupFailureFatal ==
    pc = "failed" =>
        /\ ~InService
        /\ ~master_connection
        /\ ~filter_installed
        /\ providers = <<>>
        /\ provider_refs = <<>>
        /\ clients = <<>>
        /\ Created = {}
        /\ registered = {}
        /\ returned = <<>>
        /\ serial = 0

\* start-up has failed to connect with loadable descriptors in the directory
C11_Witness ==
    /\ pc = "failed"
    /\ last.op = "init"
    /\ ~last.connected
    /\ Cardinality(Loadable(last.dir)) >= 2

\* the providers whose reference count this step lowers
ReleasedByStep ==
    {p \in DOMAIN provider_refs : provider_refs'[p] < provider_refs[p]}

\* C12: a session destruction removes the session from the tracked set and
\* then releases the registry exactly when the tracked set has just become
\* empty and the registry is populated: one reference of every provider is
\* dropped, once, and nothing is released by a destruction that leaves other
\* sessions tracked.
C12_ReleaseOncePerTransition ==
    [][(last'.op = "filter" /\ last'.client # NULL) =>
          /\ last'.client \notin Range(clients')
          /\ IF clients' = <<>> /\ providers # <<>>
             THEN /\ ReleasedByStep = Range(providers)
                  /\ \A p \in Range(providers) :
                         provider_refs[p] = 1 /\ provider_refs'[p] = 0
                  /\ providers' = <<>>
             ELSE /\ ReleasedByStep = {}
                  /\ provider_refs' = provider_refs
                  /\ providers' = providers]_vars

\* the second of two sessions has been destroyed and every provider has
\* been released, once
C12_Witness ==
    /\ last.op = "filter"
    /\ last.client # NULL
    /\ clients = <<>>
    /\ Cardinality(Destroyed) >= 2
    /\ last.released # {}
    /\ last.released = DOMAIN provider_refs
    /\ \A p \in DOMAIN provider_refs : provider_refs[p] = 0

\* C13: in every interleaving of Create calls and disappearance
\* notifications, a step that releases providers ends with the tracked set
\* empty: every session created before it has been destroyed, none is left
\* tracked or exported.
C13_NoReleaseWhileInUse ==
    [][ReleasedByStep # {} =>
          /\ last'.op = "filter"
          /\ clients' = <<>>
          /\ registered' = {}
          /\ \A c \in Created : c \in Destroyed']_vars

\* the providers have been released after sessions of two different peers
\* were created and both destroyed
C13_Witness ==
    /\ last.op = "filter"
    /\ last.released # {}
    /\ \E c, d \in Created : c.sender # d.sender
    /\ Created = Destroyed

\* C14: after start-up no operation adds a provider: Create, the filter and
\* the selection leave the registry as it is or empty it, no provider gains
\* a reference, and a released registry stays empty while later sessions
\* are created.
C14_PopulatedOnce ==
    [][pc # "new" =>
          /\ providers' \in {providers, <<>>}
          /\ DOMAIN provider_refs' = DOMAIN provider_refs
          /\ \A p \in DOMAIN provider_refs :
                 provider_refs'[p] <= provider_refs[p]
          /\ (last'.op \in {"create", "select"} =>
                 UNCHANGED <<providers, provider_refs>>)]_vars

\* a session has been created after the providers were released: it is
\* tracked and the registry is still empty
C14_Witness ==
    /\ last.op = "create"
    /\ clients # <<>>
    /\ Destroyed # {}
    /\ providers = <<>>
    /\ \E p \in DOMAIN provider_refs : provider_refs[p] = 0

\* the exported object of session c
Export(c) == [path |-> c.object_path, object |-> c]

\* C15: when identity X holds two or more tracked sessions, one
\* disappearance notification for X destroys only the first match of the
\* tracked list, the session of X created last; the other sessions of X
\* stay tracked and exported and the registry is not released.
C15_MultipleSessionsPerIdentity ==
    [][(/\ last'.op = "filter"
        /\ IsDisappearance(last'.message)
        /\ Cardinality(TrackedFor(NameOf(last'.message))) >= 2) =>
          LET X == NameOf(last'.message)
              first == SelectSeq(clients, LAMBDA c : c.sender = X)[1]
          IN  /\ last'.client = first
              /\ MostRecentFor(X) = {first}
              /\ Destroyed' = Destroyed \cup {first}
              /\ clients' = SelectSeq(clients, LAMBDA c : c # first)
              /\ \A c \in TrackedFor(X) \ {first} :
                     /\ c \in Range(clients')
                     /\ Export(c) \in registered'
                     /\ unregistered'[c] = 0
              /\ last'.released = {}
              /\ UNCHANGED <<providers, provider_refs>>]_vars

\* a notification for a peer with three sessions has destroyed one of them:
\* two sessions of the vanished peer are still tracked and exported, with
\* the providers loaded
C15_Witness ==
    /\ last.op = "filter"
    /\ IsDisappearance(last.message)
    /\ last.client # NULL
    /\ last.client \in Destroyed
    /\ Cardinality(TrackedFor(NameOf(last.message))) = 2
    /\ \A c \in TrackedFor(NameOf(last.message)) : Export(c) \in registered
    /\ providers # <<>>

\* C16: a session is unexported at most once, and only while it is exported:
\* it has a handle, the connection exists and its object is registered; no
\* unexport is attempted on a session that is not exported.
C16_GuardedUnexport ==
    [][\A c \in Created :
          unregistered'[c] # unregistered[c] =>
              /\ unregistered[c] = 0
              /\ unregistered'[c] = 1
              /\ c.object_path # NULL_CHARS
              /\ master_connection
              /\ Export(c) \in registered
              /\ Export(c) \notin registered']_vars

\* a second notification for the peer of an unexported session has found
\* nothing more to unexport
C16_Witness ==
    /\ last.op = "filter"
    /\ IsDisappearance(last.message)
    /\ last.client = NULL
    /\ \E c \in Destroyed :
           /\ c.sender = NameOf(last.message)
           /\ unregistered[c] = 1
           /\ Export(c) \notin registered

\* C17: a session is destroyed only after it was created and while it is
\* tracked, and at most once: its reference count goes from one to zero,
\* never below, and the tracked sessions are exactly the created sessions
\* that have not been destroyed.
C17_PerSessionOrdering ==
    [][/\ Destroyed \subseteq Destroyed'
       /\ \A c \in Destroyed' \ Destroyed :
              /\ c \in Created
              /\ c \in Range(clients)
              /\ client_refs[c] = 1
              /\ c \notin Range(clients')
       /\ \A c \in Created' :
              /\ client_refs'[c] \in {0, 1}
              /\ Count(clients', c) = client_refs'[c]]_vars

\* a session created after another one was destroyed has been destroyed in
\* its turn
C17_Witness ==
    /\ last.op = "filter"
    /\ last.client # NULL
    /\ last.client \in Destroyed
    /\ \E c \in Destroyed : c.id < last.client.id /\ c.sender = last.client.sender
    /\ last.client \notin Range(clients)

\* the sequence s back to front
Reverse(s) == [i \in 1..Len(s) |-> s[Len(s) + 1 - i]]

\* the providers of the loadable descriptors of directory d, in the order
\* in which the directory is read
Discovered(d) ==
    LET loadable ==
            SelectSeq(d.files, LAMBDA f : f \in Loadable(d))
    IN  [i \in 1..Len(loadable) |->
            [file |-> loadable[i].name, desc |-> loadable[i].content]]

\* the qualifying providers among those of the sequence s, in the order of s
QualifyingOf(s, request) ==
    SelectSeq(s, LAMBDA p : Qualifies(p, request))

\* C18, as claimed: the selection returns the qualifying providers in the
\* reverse of the order in which their descriptors were discovered at load.
C18_SelectionReverseDiscovery ==
    [][(last.op = "init" /\ last'.op = "select") =>
          last'.result =
              Reverse(QualifyingOf(Discovered(last.dir), last'.request))]_vars

\* C18, amended: the selection returns the qualifying providers in the
\* order in which their descriptors were discovered at load, which is the
\* reverse of their order in the registry; the result is a function of the
\* registry and the request.
C18_SelectionDiscoveryOrder ==
    [][last'.op = "select" =>
          /\ last'.result =
                 QualifyingOf(Reverse(providers), last'.request)
          /\ (last.op = "init" =>
                 /\ providers = Reverse(Discovered(last.dir))
                 /\ last'.result =
                        QualifyingOf(Discovered(last.dir), last'.request))]_vars

\* a selection has returned two providers: the one discovered first comes
\* first
C18_Witness ==
    /\ last.op = "select"
    /\ Len(last.result) = 2
    /\ last.result[1].file = ProviderFile(1)
    /\ last.result[2].file = ProviderFile(2)
    /\ providers[1].file = ProviderFile(2)

\* the sessions of the list that were not requested by identity x
OthersIn(list, x) == SelectSeq(list, LAMBDA c : c.sender # x)

\* C19: handling a disappearance notification for identity X leaves the
\* sessions of every other identity as they were: tracked in the same order,
\* exported under the same handle, referenced as before; the handle counter
\* and the handles returned are unchanged, and so is the registry unless
\* the tracked set has become empty.
C19_DestructionFrame ==
    [][(last'.op = "filter" /\ IsDisappearance(last'.message)) =>
          LET X == NameOf(last'.message)
          IN  /\ OthersIn(clients', X) = OthersIn(clients, X)
              /\ \A c \in Created :
                     c.sender # X =>
                         /\ (Export(c) \in registered') =
                                (Export(c) \in registered)
                         /\ client_refs'[c] = client_refs[c]
                         /\ unregistered'[c] = unregistered[c]
              /\ Created' = Created
              /\ UNCHANGED <<serial, returned>>
              /\ (clients' # <<>> =>
                     UNCHANGED <<providers, provider_refs>>)]_vars

\* a notification has destroyed a session of one peer while a session of
\* another peer, created earlier, is tracked and exported
C19_Witness ==
    /\ last.op = "filter"
    /\ IsDisappearance(last.message)
    /\ last.client # NULL
    /\ last.client \in Destroyed
    /\ \E c \in Range(clients) :
           /\ c.sender # NameOf(last.message)
           /\ c.id < last.client.id
           /\ Export(c) \in registered
           /\ client_refs[c] = 1

\* the sessions identity x has created, and the last of them
CreatedBy(x) == {c \in Created : c.sender = x}
LastCreatedBy(x) == {c \in CreatedBy(x) : \A d \in CreatedBy(x) : d.id <= c.id}

\* C20, as claimed: once every identity that created a session has had a
\* disappearance notification delivered after its last Create (its last
\* session has been found and destroyed), the tracked set is empty and the
\* registry has been released.
C20_EventualReclamation ==
    (/\ Created # {}
     /\ \A x \in Senders : LastCreatedBy(x) \subseteq Destroyed) =>
        /\ clients = <<>>
        /\ providers = <<>>

\* C20, amended: once every identity that created sessions has had one
\* disappearance notification delivered for each session it created (each
\* delivery destroys one session of the identity), the tracked set is
\* empty, nothing is exported and the registry has been released.
C20_ReclamationPerSession ==
    (/\ Created # {}
     /\ \A x \in Senders :
            Cardinality(CreatedBy(x) \cap Destroyed) =
                Cardinality(CreatedBy(x))) =>
        /\ clients = <<>>
        /\ registered = {}
        /\ providers = <<>>
        /\ \A p \in DOMAIN provider_refs : provider_refs[p] = 0

\* a peer created two sessions, two notifications for it were delivered,
\* and the providers that were loaded have been released
C20_Witness ==
    /\ last.op = "filter"
    /\ last.client # NULL
    /\ Created = Destroyed
    /\ \E c, d \in Created : c # d /\ c.sender = d.sender
    /\ DOMAIN provider_refs # {}
    /\ clients = <<>>
    /\ providers = <<>>

====
